---------------------------- MODULE Spec2Model ----------------------------
(***************************************************************************)
(* A model of the object serialization subsystem of aicompleter            *)
(* (src/aicompleter/common.py): the SerializeHandler registry and the      *)
(* recursive serialize / deserialize functions; of the 'exec' command of   *)
(* PythonCodeInterface (src/aicompleter/implements/pythonc.py); of the     *)
(* console lock of ainput / aprint (src/aicompleter/utils/aio.py); and of  *)
(* AsyncLifeTimeManager (src/aicompleter/common.py).                       *)
(*                                                                         *)
(* Python values are tagged tuples whose first element names the kind:     *)
(*   <<"None">>  <<"bool", b>>  <<"int", n>>  <<"float", n>>               *)
(*   <<"str", p>>     p = <<"lit", s>> or <<"hex", bytes payload>>         *)
(*   <<"bytes", p>>   p = <<"raw", s>>, <<"uuid", n>> or <<"pkl", value>>  *)
(*   <<"list", items>> <<"tuple", items>> <<"set", items>>                 *)
(*   <<"dict", pairs>>  pairs a sequence of <<key, value>>, in insertion   *)
(*                      order, none of whose keys is 'type'                *)
(*   <<"obj", class, state>>   an instance of a class of the class table;  *)
(*        the state of an instance of a subclass of a built-in type is the *)
(*        built-in value it holds                                          *)
(*   <<"type", class>>         a class object                              *)
(*   <<"node", type, module, class, data>>  a dict carrying the keys       *)
(*        'type', 'module', 'class', 'data' (Absent / NoData when the key  *)
(*        is missing): the tagged nodes serialize emits                    *)
(***************************************************************************)
EXTENDS Integers, Sequences, FiniteSets, TLC

VARIABLES
    handlers,     \* SerializeHandler._serialize_handlers, in insertion order
    nregs,        \* how many times SerializeHandler(T) was called by the program
    op,           \* the call in progress: its result has not been taken yet
    arg,          \* its input value
    opt,          \* its flags: [pickle_all, unpickle_all, global_]
    ret,          \* its outcome: [ok, val, err]
    eff,          \* what it did: [imports, loads, called]
    origin,       \* for a deserialize of a serialize result: the value serialized
    before,       \* the registry when the call started
    overwritten,  \* converter functions replaced by a later registration
    session,      \* session.data['pythoncode']['globals'] of the one session
    ncalls,       \* how many 'exec' commands the session has run
    call,         \* the last 'exec' command: [code, type, ok, val, pre, passed]
    locked,       \* _on_reading._locked
    waiters,      \* _on_reading._waiters: the tasks suspended in acquire, in order
    task,         \* each console task: [kind, pc]
    closed,       \* _close_event.is_set() of the one AsyncLifeTimeManager
    close_called, \* whether close() has been called
    close_tasks,  \* _close_tasks: the futures, in list order
    added,        \* the futures that were appended to _close_tasks
    done,         \* the futures that have completed
    wc,           \* where the wait_close() call is
    waited        \* the futures the asyncio.wait of wait_close is waiting for

execVars == <<session, ncalls, call>>
serVars == <<handlers, nregs, op, arg, opt, ret, eff, origin, before, overwritten>>
consoleVars == <<locked, waiters, task>>
lifeVars == <<closed, close_called, close_tasks, added, done, wc, waited>>
vars == <<handlers, nregs, op, arg, opt, ret, eff, origin, before, overwritten,
          session, ncalls, call, locked, waiters, task,
          closed, close_called, close_tasks, added, done, wc, waited>>

----------------------------------------------------------------------------
(* Bounds of the model *)

\* largest number of nodes of a generated plain value
MaxNodes == 3

\* largest number of registration calls in one behaviour
MaxRegs == 2

\* largest number of 'exec' commands in one behaviour
MaxCalls == 2

\* number of tasks that call ainput or aprint
MaxTasks == 3

\* number of futures a program may append to _close_tasks
MaxFutures == 3

----------------------------------------------------------------------------
(* Python values *)

Absent == "<absent>"
Unset == "<unset>"

PyNone == <<"None">>
PyBool(b) == <<"bool", b>>
PyInt(n) == <<"int", n>>
PyFloat(n) == <<"float", n>>
PyStr(s) == <<"str", <<"lit", s>>>>
PyList(items) == <<"list", items>>
PyTuple(items) == <<"tuple", items>>
PySet(items) == <<"set", items>>
PyDict(pairs) == <<"dict", pairs>>
PyBytes(p) == <<"bytes", p>>
Obj(cls, state) == <<"obj", cls, state>>
PyType(cls) == <<"type", cls>>
Node(type, module, class, data) == <<"node", type, module, class, data>>
NoData == <<"nodata">>

Kind(v) == v[1]

\* the elements iterating over a list, set or tuple yields
Items(v) == IF Kind(v) = "obj" THEN v[3][2] ELSE v[2]

\* the entries of a dict, in insertion order; a node is a dict of the keys it has
DictPairs(v) ==
    IF Kind(v) = "dict" THEN v[2]
    ELSE IF Kind(v) = "obj" THEN v[3][2]
    ELSE (IF v[2] = "<absent>" THEN <<>> ELSE << <<PyStr("type"), PyStr(v[2])>> >>)
      \o (IF v[3] = "<absent>" THEN <<>> ELSE << <<PyStr("module"), PyStr(v[3])>> >>)
      \o (IF v[4] = "<absent>" THEN <<>> ELSE << <<PyStr("class"), PyStr(v[4])>> >>)
      \o (IF v[5] = NoData THEN <<>> ELSE << <<PyStr("data"), v[5]>> >>)

\* type(v): the class of a value
TypeOf(v) ==
    CASE Kind(v) = "None" -> "NoneType"
      [] Kind(v) = "obj" -> v[2]
      [] Kind(v) = "node" -> "dict"
      [] OTHER -> Kind(v)

----------------------------------------------------------------------------
(* The classes the model knows *)

\* direct base classes
Bases(c) ==
    CASE c = "bool" -> {"int"}
      [] c = "MyUUID" -> {"UUID"}
      [] c = "Blob" -> {"Serializable"}
      [] c = "JSONSerializable" -> {"Serializable"}
      [] c = "Conf" -> {"JSONSerializable"}
      [] c \in {"Local", "Inner"} -> {"JSONSerializable"}
      [] c = "LocalBlob" -> {"Serializable"}
      [] c = "SerList" -> {"list", "Serializable"}
      [] c = "RegList" -> {"list"}
      [] c \in {"MyInt", "ShadowInt"} -> {"int"}
      [] OTHER -> {}

\* a class, its bases and their bases
Mro(c) == {c} \cup Bases(c) \cup UNION {Bases(b) : b \in Bases(c)}

issubclass(c, t) == t \in Mro(c)

isinstance(v, t) == issubclass(TypeOf(v), t)

\* __module__ of a class
ModuleOf(c) ==
    CASE c = "UUID" -> "uuid"
      [] c = "Lock" -> "asyncio.locks"
      [] c \in {"MyUUID", "Point", "Blob", "Conf", "State", "Local", "LocalBlob",
                "Outer", "Inner", "SerList", "RegList", "MyInt", "ShadowInt"} -> "app"
      [] OTHER -> "builtins"

\* __qualname__ of a class: Local and LocalBlob are defined in the body of the
\* function make, Inner in the body of the class Outer, and ShadowInt is a
\* subclass of int that its module defines under the name int
QualName(c) ==
    CASE c = "Local" -> "make.<locals>.Local"
      [] c = "LocalBlob" -> "make.<locals>.LocalBlob"
      [] c = "Inner" -> "Outer.Inner"
      [] c = "ShadowInt" -> "int"
      [] OTHER -> c

\* qualname.split('.')
Segments(q) ==
    CASE q = "make.<locals>.Local" -> <<"make", "<locals>", "Local">>
      [] q = "make.<locals>.LocalBlob" -> <<"make", "<locals>", "LocalBlob">>
      [] q = "make.<locals>.Conf" -> <<"make", "<locals>", "Conf">>
      [] q = "Outer.Inner" -> <<"Outer", "Inner">>
      [] q = "Outer.Gone" -> <<"Outer", "Gone">>
      [] OTHER -> <<q>>

\* classes with a __setstate__ / __getstate__ pair
HasStatePair(c) == c = "State"

\* classes pickle cannot find again by their qualified name
IsLocalClass(c) == c \in {"Local", "LocalBlob"}

Modules == {"uuid", "asyncio.locks", "app", "builtins"}
UserClasses == {"UUID", "Lock", "MyUUID", "Point", "Blob", "Conf", "State", "Local",
                "LocalBlob", "Outer", "Inner", "SerList", "RegList", "MyInt", "ShadowInt"}

----------------------------------------------------------------------------
(* Outcomes of a call *)

NoErr == [exc |-> "", at |-> ""]
Err(exc, at) == [exc |-> exc, at |-> at]
NoEff == [imports |-> {}, loads |-> {}, called |-> {}, depth |-> 0, deepest |-> 0]

\* a returned value
Ok(h, v, e) == [ok |-> TRUE, val |-> v, err |-> NoErr, reg |-> h, eff |-> e]
\* a raised exception
Raise(h, exc, at, e) == [ok |-> FALSE, val |-> NoData, err |-> Err(exc, at), reg |-> h, eff |-> e]

AddImport(e, m) == [e EXCEPT !.imports = @ \cup {m}]
AddLoad(e, tag) == [e EXCEPT !.loads = @ \cup {tag}]
AddCall(e, t, dir, fn) == [e EXCEPT !.called = @ \cup {<<t, dir, fn>>}]

\* entering the call made for a nested element, and coming back from it
Down(e) == [e EXCEPT !.depth = @ + 1,
                     !.deepest = IF e.depth + 1 > @ THEN e.depth + 1 ELSE @]
Up(e) == [e EXCEPT !.depth = @ - 1]

\* a depth check before the call made for a nested element
StackLeftTo1(e) == e.depth < 1

\* whether the call made for a nested element can be entered: nothing in
\* serialize or deserialize looks at the depth, and the interpreter's stack is
\* far deeper than any value of the model
StackLeft(e) == TRUE


----------------------------------------------------------------------------
(* JsonType, pickle and hex *)

RECURSIVE IsJsonType(_)
\* isinstance(v, JsonType)
IsJsonType(v) ==
    IF \E t \in {"str", "int", "float", "bool", "NoneType"} : isinstance(v, t) THEN TRUE
    ELSE IF isinstance(v, "list")
         THEN \A i \in DOMAIN Items(v) : IsJsonType(Items(v)[i])
    ELSE IF Kind(v) = "dict"
         THEN \A i \in DOMAIN v[2] : isinstance(v[2][i][1], "str") /\ IsJsonType(v[2][i][2])
    ELSE IF Kind(v) = "node"
         THEN v[5] = NoData \/ IsJsonType(v[5])
    ELSE FALSE

\* whether pickle.dumps(v) succeeds: an instance of a local class is refused
CanPickle(v) == ~(Kind(v) = "obj" /\ IsLocalClass(v[2]))
\* pickle.dumps(v): the bytes that unpickle to v
PickleDumps(v) == PyBytes(<<"pkl", v>>)
\* whether pickle.loads(b) gives back an object
CanUnpickle(b) == Kind(b) = "bytes" /\ b[2][1] = "pkl"
\* pickle.loads(b)
PickleLoads(b) == b[2][2]

\* bytes.hex()
Hex(b) == <<"str", <<"hex", b[2]>>>>

\* the order data.items() yields the entries of a mapping in, reversed
PairOrderReversed(pairs) == [i \in DOMAIN pairs |-> pairs[Len(pairs) + 1 - i]]

\* the order data.items() yields the entries of a mapping in: insertion order
PairOrder(pairs) == pairs
\* whether bytes.fromhex(s) accepts s
IsHex(s) == Kind(s) = "str" /\ s[2][1] = "hex"
\* bytes.fromhex(s)
FromHex(s) == PyBytes(s[2][2])

----------------------------------------------------------------------------
(* Converter functions handed to SerializeHandler(T).serializer / .deserializer *)

\* "uuid_hex" / "uuid_new" and "lock_locked" / "lock_new" are the converters
\* common.py registers; "state_of" / "of_state" and "boxed" / "unboxed" stand for
\* two different pairs a caller registers: the object's state as it is, and the
\* state wrapped in a list of one element.

\* bool(v)
Truthy(v) ==
    CASE Kind(v) = "None" -> FALSE
      [] Kind(v) = "bool" -> v[2]
      [] Kind(v) \in {"int", "float"} -> v[2] # 0
      [] Kind(v) \in {"list", "tuple", "set", "dict"} -> v[2] # <<>>
      [] OTHER -> TRUE

\* a slip: the UUID converter returns str(data), the dashed form, not data.hex
ApplySerDashed(fn, data) ==
    CASE fn = "uuid_hex" -> <<"str", <<"dashed", PyBytes(<<"uuid", data[3][2]>>)[2]>>>>
      [] fn = "lock_locked" -> data[3]
      [] fn = "state_of" -> data[3]
      [] OTHER -> PyList(<<data[3]>>)

\* the value a to-portable function returns for an object
ApplySer(fn, data) ==
    CASE fn = "uuid_hex" -> Hex(PyBytes(<<"uuid", data[3][2]>>))
      [] fn = "lock_locked" -> data[3]
      [] fn = "state_of" -> data[3]
      [] OTHER -> PyList(<<data[3]>>)

\* whether a from-portable function accepts a payload
DeAccepts(fn, d) ==
    CASE fn = "uuid_new" -> IsHex(d) /\ d[2][2][1] = "uuid"
      [] fn = "lock_new" -> TRUE
      [] fn = "of_state" -> TRUE
      [] OTHER -> Kind(d) = "list" /\ Len(d[2]) = 1

\* the object a from-portable function builds; t is the type it was registered for
ApplyDe(fn, t, d) ==
    CASE fn = "uuid_new" -> Obj("UUID", PyInt(d[2][2][2]))
      [] fn = "lock_new" -> Obj("Lock", PyBool(Truthy(d)))
      [] fn = "of_state" -> Obj(t, d)
      [] OTHER -> Obj(t, d[2][1])

----------------------------------------------------------------------------
(* SerializeHandler *)

Registered(h) == {h[i].type : i \in DOMAIN h}

\* cls._serialize_handlers[t]
Entry(h, t) == h[CHOOSE i \in DOMAIN h : h[i].type = t]

\* a slip: the new entry replaces the registry instead of joining it
HandlerNewAlone(h, t) ==
    IF t \in Registered(h) THEN h
    ELSE << [type |-> t, ser |-> Unset, de |-> Unset] >>

\* the registry after SerializeHandler(t): the entry is created when missing
HandlerNew(h, t) ==
    IF t \in Registered(h) THEN h
    ELSE Append(h, [type |-> t, ser |-> Unset, de |-> Unset])

\* a slip: a serializer already set is kept
SetSerializerOnce(h, t, fn) ==
    LET h1 == HandlerNew(h, t) IN
    [i \in DOMAIN h1 |-> IF h1[i].type = t /\ h1[i].ser = Unset
                          THEN [h1[i] EXCEPT !.ser = fn] ELSE h1[i]]

\* SerializeHandler(t).serializer(fn)
SetSerializer(h, t, fn) ==
    LET h1 == HandlerNew(h, t) IN
    [i \in DOMAIN h1 |-> IF h1[i].type = t THEN [h1[i] EXCEPT !.ser = fn] ELSE h1[i]]

\* SerializeHandler(t).deserializer(fn)
SetDeserializer(h, t, fn) ==
    LET h1 == HandlerNew(h, t) IN
    [i \in DOMAIN h1 |-> IF h1[i].type = t THEN [h1[i] EXCEPT !.de = fn] ELSE h1[i]]

\* whether a class matches a key of the registry
ClassMatches(c, t) == issubclass(c, t)

\* SerializeHandler.support(param)
support(h, param) ==
    IF Kind(param) = "type"
    THEN \E t \in Registered(h) : ClassMatches(param[2], t)
    ELSE \E t \in Registered(h) : ClassMatches(TypeOf(param), t)

\* handler.serialize(data) of the entry of type t
HandlerSerialize(h, t, data, e) ==
    LET fn == Entry(h, t).ser IN
    IF fn = Unset THEN Raise(h, "AttributeError", "serializer", e)
    ELSE LET r == ApplySer(fn, data)
             e1 == AddCall(e, t, "ser", fn) IN
         IF ~IsJsonType(r) THEN Raise(h, "TypeError", "not-json", e1)
         ELSE Ok(h, r, e1)

\* handler.deserialize(data) of the entry of type t
HandlerDeserialize(h, t, d, e) ==
    LET fn == Entry(h, t).de IN
    IF ~IsJsonType(d) THEN Raise(h, "TypeError", "not-json", e)
    ELSE IF fn = Unset THEN Raise(h, "AttributeError", "deserializer", e)
    ELSE IF ~DeAccepts(fn, d) THEN Raise(h, "ValueError", "converter", AddCall(e, t, "de", fn))
    ELSE Ok(h, ApplyDe(fn, t, d), AddCall(e, t, "de", fn))

\* the type serializeData picks: the first registered one data is an instance of
FirstMatch(h, data) ==
    h[CHOOSE i \in DOMAIN h : /\ isinstance(data, h[i].type)
                              /\ \A j \in 1..(i-1) : ~isinstance(data, h[j].type)].type

\* a slip: the handler is fetched for the exact type of the data
HandlerKeyExactType(t, data) == TypeOf(data)

\* the type serializeData fetches the handler of: the matching registered type
HandlerKey(t, data) == t

\* SerializeHandler.serializeData(data): val is the pair <<type_, portable>>
serializeData(h, data, e) ==
    IF ~support(h, data) THEN Raise(h, "TypeError", "not-support", e)
    ELSE LET t == FirstMatch(h, data)
             k == HandlerKey(t, data)
             h1 == HandlerNew(h, k)
             r == HandlerSerialize(h1, k, data, e) IN
         IF r.ok THEN Ok(h1, <<t, r.val>>, r.eff) ELSE r


----------------------------------------------------------------------------
(* serialize *)

\* the 'type' of a list, set or tuple node
SequenceSubtype(data) ==
    IF isinstance(data, "list") THEN "list"
    ELSE IF isinstance(data, "set") THEN "set" ELSE "tuple"

\* the pickle_all flag handed to the serialize call of a nested element
NestedPickleAll(pickle_all) == FALSE

\* the key a mapping entry is emitted under
EmitKey(key) == key

\* whether the rule for scalar primitives emits the value as it is: the test is
\* on the name of the class
IsExactPrimitive(data) ==
    QualName(TypeOf(data)) \in {"int", "float", "str", "bool", "NoneType"}

\* a slip: a scalar is wrapped in a node of its own
EmitPrimitiveTagged(data) == Node("Primitive", Absent, Absent, data)

\* what the rule for scalar primitives emits: the value itself
EmitPrimitive(data) == data

\* a slip: an object that is also a list is not asked to serialize itself
CooperatesUnlessList(data) ==
    isinstance(data, "Serializable") /\ ~isinstance(data, "list")

\* the first rule: the object serializes itself
Cooperates(data) == isinstance(data, "Serializable")

\* a slip: the last rule never pickles
FallbackPicklesNever(pickle_all) == FALSE

\* whether the last rule pickles the value
FallbackPickles(pickle_all) == pickle_all

RECURSIVE serialize(_, _, _, _)
RECURSIVE SerializeItems(_, _, _, _)
RECURSIVE SerializePairs(_, _, _, _)

\* [serialize(item) for item in items]: val is the raw list of results
SerializeItems(h, items, pickle_all, e) ==
    IF items = <<>> THEN Ok(h, PyList(<<>>), e)
    ELSE IF ~StackLeft(e) THEN Raise(h, "RecursionError", "depth", e)
    ELSE LET r == serialize(h, Head(items), NestedPickleAll(pickle_all), Down(e)) IN
         IF ~r.ok THEN r
         ELSE LET rest == SerializeItems(r.reg, Tail(items), pickle_all, Up(r.eff)) IN
              IF ~rest.ok THEN rest
              ELSE Ok(rest.reg, PyList(<<r.val>> \o rest.val[2]), rest.eff)

\* {key: serialize(value) for key, value in pairs}: val is the raw dict of results
SerializePairs(h, pairs, pickle_all, e) ==
    IF pairs = <<>> THEN Ok(h, PyDict(<<>>), e)
    ELSE IF ~StackLeft(e) THEN Raise(h, "RecursionError", "depth", e)
    ELSE LET r == serialize(h, Head(pairs)[2], NestedPickleAll(pickle_all), Down(e)) IN
         IF ~r.ok THEN r
         ELSE LET rest == SerializePairs(r.reg, Tail(pairs), pickle_all, Up(r.eff)) IN
              IF ~rest.ok THEN rest
              ELSE Ok(rest.reg, PyDict(<<(<<EmitKey(Head(pairs)[1]), r.val>>)>> \o rest.val[2]), rest.eff)

\* data.__serialize__() of a Serializable object
SelfSerialize(h, data, pickle_all, e) ==
    IF isinstance(data, "JSONSerializable")
    THEN SerializePairs(h, PairOrder(data[3][2]), pickle_all, e)
    ELSE IF ~CanPickle(data) THEN Raise(h, "AttributeError", "dumps", e)
    ELSE Ok(h, PickleDumps(data), e)

\* serialize(data, pickle_all)
serialize(h, data, pickle_all, e) ==
    IF Cooperates(data) THEN
        LET r == SelfSerialize(h, data, pickle_all, e) IN
        IF ~r.ok THEN r
        ELSE Ok(r.reg, Node("class", ModuleOf(TypeOf(data)), QualName(TypeOf(data)), r.val), r.eff)
    ELSE IF \E t \in {"list", "set", "tuple"} : isinstance(data, t) THEN
        LET r == SerializeItems(h, Items(data), pickle_all, e) IN
        IF ~r.ok THEN r
        ELSE Ok(r.reg, Node(SequenceSubtype(data), Absent, Absent, r.val), r.eff)
    ELSE IF isinstance(data, "dict") THEN
        LET r == SerializePairs(h, PairOrder(DictPairs(data)), pickle_all, e) IN
        IF ~r.ok THEN r
        ELSE Ok(r.reg, Node("dict", Absent, Absent, r.val), r.eff)
    ELSE IF \E t \in {"int", "float", "str", "bool", "NoneType"} : isinstance(data, t) THEN
        IF IsExactPrimitive(data) THEN Ok(h, EmitPrimitive(data), e)
        ELSE IF pickle_all THEN
            IF ~CanPickle(data) THEN Raise(h, "AttributeError", "dumps", e)
            ELSE Ok(h, Node("pickle", Absent, Absent, PickleDumps(data)), e)
        ELSE Raise(h, "TypeError", "inherited", e)
    ELSE IF isinstance(data, "bytes") THEN
        Ok(h, Node("bytes", Absent, Absent, Hex(data)), e)
    ELSE IF support(h, data) THEN
        LET r == serializeData(h, data, e) IN
        IF ~r.ok THEN r
        ELSE Ok(r.reg, Node("handler", ModuleOf(r.val[1]), QualName(r.val[1]), r.val[2]), r.eff)
    ELSE IF HasStatePair(TypeOf(data)) THEN
        IF ~CanPickle(data) THEN Raise(h, "AttributeError", "dumps", e)
        ELSE Ok(h, Node("secure-pickle", Absent, Absent, Hex(PickleDumps(data))), e)
    ELSE IF FallbackPickles(pickle_all) THEN
        IF ~CanPickle(data) THEN Raise(h, "AttributeError", "dumps", e)
        ELSE Ok(h, Node("pickle", Absent, Absent, PickleDumps(data)), e)
    ELSE Raise(h, "TypeError", "cannot-serialize", e)


----------------------------------------------------------------------------
(* deserialize *)

\* the global_ and unpickle_all handed to the deserialize call of a nested node
NestedGlobal(global_) == PyNone
NestedUnpickleAll(unpickle_all) == FALSE

Missing == <<"missing">>

\* getattr(owner, name) of a module, a class or a function, Missing when it
\* raises AttributeError: a module holds its top-level classes under their
\* names, the module app holds the function make, the class Outer holds Inner
AttrOf(owner, name) ==
    IF Kind(owner) = "module" THEN
        IF owner[2] = "app" /\ name = "make" THEN <<"function", "make">>
        ELSE IF \E c \in UserClasses : ModuleOf(c) = owner[2] /\ QualName(c) = name
        THEN PyType(CHOOSE c \in UserClasses : ModuleOf(c) = owner[2] /\ QualName(c) = name)
        ELSE Missing
    ELSE IF owner = PyType("Outer") /\ name = "Inner" THEN PyType("Inner")
    ELSE Missing

RECURSIVE GetAttrPath(_, _)
\* the object reached from owner by getattr along the segments of a name
GetAttrPath(owner, segs) ==
    IF segs = <<>> THEN owner
    ELSE LET a == AttrOf(owner, Head(segs)) IN
         IF a = Missing THEN Missing ELSE GetAttrPath(a, Tail(segs))

\* the object a module attribute path names, Missing when there is none
ClassAt(module, class) == GetAttrPath(<<"module", module>>, Segments(class))

\* _get_class(module, class): val is the class object
GetClass(h, module, class, e) ==
    IF module = Absent THEN Raise(h, "KeyError", "module", e)
    ELSE IF class = Absent THEN Raise(h, "KeyError", "class", e)
    ELSE IF module \notin Modules THEN Raise(h, "ModuleNotFoundError", "import", AddImport(e, module))
    ELSE IF ClassAt(module, class) = Missing THEN Raise(h, "AttributeError", "getattr", AddImport(e, module))
    ELSE Ok(h, ClassAt(module, class), AddImport(e, module))

\* a slip: the namespace is asked for the last segment of the name only
NamespaceLookupLast(names, segs) ==
    IF segs[Len(segs)] \notin names THEN Err("KeyError", "global")
    ELSE NoErr

\* cls = global_; for i in segs: cls = cls[i], on a namespace of classes held
\* under their names: the error the walk ends in, NoErr when it reaches one.
\* A class cannot be subscripted, so a name of several segments never does.
NamespaceLookup(names, segs) ==
    IF segs[1] \notin names THEN Err("KeyError", "global")
    ELSE IF Len(segs) > 1 THEN Err("TypeError", "subscript")
    ELSE NoErr

\* the class of a 'class' node: looked up in global_ when one is given
ResolveClass(h, module, class, global_, e) ==
    IF global_ = PyNone THEN
        IF module = Absent THEN Raise(h, "KeyError", "module", e)
        ELSE IF class = Absent THEN Raise(h, "KeyError", "class", e)
        ELSE GetClass(h, module, class, e)
    ELSE IF class = Absent THEN Raise(h, "KeyError", "class", e)
    ELSE LET segs == Segments(class)
             err == NamespaceLookup(global_[2], segs) IN
         IF err # NoErr THEN Raise(h, err.exc, err.at, e)
         ELSE Ok(h, PyType(segs[Len(segs)]), e)

RECURSIVE Hashable(_)
\* whether hash(v) succeeds
Hashable(v) ==
    CASE Kind(v) \in {"list", "set", "dict", "node"} -> FALSE
      [] Kind(v) = "tuple" -> \A i \in DOMAIN v[2] : Hashable(v[2][i])
      [] OTHER -> TRUE

RECURSIVE Distinct(_)
\* the elements of a sequence, each kept at its first occurrence
Distinct(items) ==
    IF items = <<>> THEN <<>>
    ELSE LET init == Distinct(SubSeq(items, 1, Len(items) - 1))
             last == items[Len(items)] IN
         IF \E i \in DOMAIN init : init[i] = last THEN init ELSE Append(init, last)

\* a slip: every sequence node is rebuilt as a list
BuildSequenceAsList(subtype, items) == PyList(items)

\* getattr(builtins, subtype)(items)
BuildSequence(subtype, items) ==
    IF subtype = "set" THEN PySet(Distinct(items)) ELSE <<subtype, items>>

\* a slip: the 'pickle' branch does not look at the flag
PickleAlwaysAllowed(unpickle_all) == TRUE

\* whether the 'pickle' branch may unpickle
PickleAllowed(unpickle_all) == unpickle_all

\* whether the 'secure-pickle' branch may unpickle
SecurePickleAllowed(unpickle_all) == TRUE

\* whether the 'handler' branch accepts the class: SerializeHandler.support(cls)
HandlerSupported(h, cls) == support(h, cls)

\* whether JSONSerializableMeta's _deserialize imports the module of its class
MetaImports(cls) == TRUE

\* a slip: a node of an unknown 'type' is handed back as it is
UnknownTypePassed(h, data, e) == Ok(h, data, e)

\* the end of the chain of tests on data['type']: no branch took the node
UnknownType(h, data, e) == Raise(h, "TypeError", "unknown-type", e)

RECURSIVE deserialize(_, _, _, _, _)
RECURSIVE DeserializeItems(_, _, _, _, _)
RECURSIVE DeserializePairs(_, _, _, _, _)

\* [deserialize(item) for item in items]: val is the raw list of results
DeserializeItems(h, items, global_, unpickle_all, e) ==
    IF items = <<>> THEN Ok(h, PyList(<<>>), e)
    ELSE IF ~StackLeft(e) THEN Raise(h, "RecursionError", "depth", e)
    ELSE LET r == deserialize(h, Head(items), NestedGlobal(global_),
                              NestedUnpickleAll(unpickle_all), Down(e)) IN
         IF ~r.ok THEN r
         ELSE LET rest == DeserializeItems(r.reg, Tail(items), global_, unpickle_all, Up(r.eff)) IN
              IF ~rest.ok THEN rest
              ELSE Ok(rest.reg, PyList(<<r.val>> \o rest.val[2]), rest.eff)

\* {key: deserialize(value) for key, value in pairs}: val is the raw dict of results
DeserializePairs(h, pairs, global_, unpickle_all, e) ==
    IF pairs = <<>> THEN Ok(h, PyDict(<<>>), e)
    ELSE IF ~StackLeft(e) THEN Raise(h, "RecursionError", "depth", e)
    ELSE LET r == deserialize(h, Head(pairs)[2], NestedGlobal(global_),
                              NestedUnpickleAll(unpickle_all), Down(e)) IN
         IF ~r.ok THEN r
         ELSE LET rest == DeserializePairs(r.reg, Tail(pairs), global_, unpickle_all, Up(r.eff)) IN
              IF ~rest.ok THEN rest
              ELSE Ok(rest.reg, PyDict(<<(<<Head(pairs)[1], r.val>>)>> \o rest.val[2]), rest.eff)

\* cls.__deserialize__(d) of a Serializable class
ClassDeserialize(h, cls, d, global_, unpickle_all, e) ==
    IF issubclass(cls, "JSONSerializable") THEN
        LET e1 == IF MetaImports(cls) THEN AddImport(e, ModuleOf(cls)) ELSE e IN
        IF d = NoData THEN Raise(h, "KeyError", "data", e)
        ELSE IF \E i \in DOMAIN Segments(QualName(cls)) : Segments(QualName(cls))[i] = "<locals>"
             THEN Raise(h, "TypeError", "local-class", e1)
        ELSE IF Kind(d) \notin {"dict", "node"} THEN Raise(h, "AttributeError", "items", e1)
        ELSE LET r == DeserializePairs(h, DictPairs(d), global_, unpickle_all, e1) IN
             IF ~r.ok THEN r ELSE Ok(r.reg, Obj(cls, r.val), r.eff)
    ELSE IF d = NoData THEN Raise(h, "KeyError", "data", e)
    ELSE IF Kind(d) # "bytes" THEN Raise(h, "TypeError", "loads", AddLoad(e, "class"))
    ELSE IF ~CanUnpickle(d) THEN Raise(h, "UnpicklingError", "loads", AddLoad(e, "class"))
    ELSE Ok(h, PickleLoads(d), AddLoad(e, "class"))

\* deserialize(data, global_, unpickle_all)
deserialize(h, data, global_, unpickle_all, e) ==
    IF \E t \in {"int", "float", "str", "bool", "NoneType"} : isinstance(data, t) THEN Ok(h, data, e)
    ELSE IF Kind(data) # "node" \/ data[2] = Absent THEN Raise(h, "TypeError", "no-type", e)
    ELSE LET subtype == data[2]
             d == data[5] IN
    IF subtype = "class" THEN
        LET c == ResolveClass(h, data[3], data[4], global_, e) IN
        IF ~c.ok THEN c
        ELSE IF Kind(c.val) # "type" THEN Raise(h, "TypeError", "issubclass", c.eff)
        ELSE IF ~issubclass(c.val[2], "Serializable") THEN Raise(h, "TypeError", "not-serializable", c.eff)
        ELSE ClassDeserialize(h, c.val[2], d, global_, unpickle_all, c.eff)
    ELSE IF subtype \in {"list", "set", "tuple"} THEN
        IF d = NoData THEN Raise(h, "KeyError", "data", e)
        ELSE IF Kind(d) \notin {"list", "set", "tuple"} THEN Raise(h, "TypeError", "not-iterable", e)
        ELSE LET r == DeserializeItems(h, d[2], global_, unpickle_all, e) IN
             IF ~r.ok THEN r
             ELSE IF subtype = "set" /\ \E i \in DOMAIN r.val[2] : ~Hashable(r.val[2][i])
                  THEN Raise(r.reg, "TypeError", "unhashable", r.eff)
             ELSE Ok(r.reg, BuildSequence(subtype, r.val[2]), r.eff)
    ELSE IF subtype = "dict" THEN
        IF d = NoData THEN Raise(h, "KeyError", "data", e)
        ELSE IF Kind(d) \notin {"dict", "node"} THEN Raise(h, "AttributeError", "items", e)
        ELSE DeserializePairs(h, DictPairs(d), global_, unpickle_all, e)
    ELSE IF subtype = "bytes" THEN
        IF d = NoData THEN Raise(h, "KeyError", "data", e)
        ELSE IF Kind(d) # "str" THEN Raise(h, "TypeError", "fromhex", e)
        ELSE IF ~IsHex(d) THEN Raise(h, "ValueError", "fromhex", e)
        ELSE Ok(h, FromHex(d), e)
    ELSE IF subtype = "handler" THEN
        LET c == GetClass(h, data[3], data[4], e) IN
        IF ~c.ok THEN c
        ELSE IF ~HandlerSupported(h, c.val) THEN Raise(h, "ValueError", "not-support", c.eff)
        ELSE IF d = NoData THEN Raise(HandlerNew(h, c.val[2]), "KeyError", "data", c.eff)
        ELSE HandlerDeserialize(HandlerNew(h, c.val[2]), c.val[2], d, c.eff)
    ELSE IF subtype = "secure-pickle" THEN
        IF ~SecurePickleAllowed(unpickle_all) THEN Raise(h, "TypeError", "pickle-object", e)
        ELSE IF d = NoData THEN Raise(h, "KeyError", "data", e)
        ELSE IF Kind(d) # "str" THEN Raise(h, "TypeError", "fromhex", e)
        ELSE IF ~IsHex(d) THEN Raise(h, "ValueError", "fromhex", e)
        ELSE IF ~CanUnpickle(FromHex(d)) THEN Raise(h, "UnpicklingError", "loads", AddLoad(e, "secure-pickle"))
        ELSE Ok(h, PickleLoads(FromHex(d)), AddLoad(e, "secure-pickle"))
    ELSE IF subtype = "pickle" THEN
        IF ~PickleAllowed(unpickle_all) THEN Raise(h, "TypeError", "pickle-object", e)
        ELSE IF d = NoData THEN Raise(h, "KeyError", "data", e)
        ELSE IF Kind(d) # "bytes" THEN Raise(h, "TypeError", "loads", AddLoad(e, "pickle"))
        ELSE IF ~CanUnpickle(d) THEN Raise(h, "UnpicklingError", "loads", AddLoad(e, "pickle"))
        ELSE Ok(h, PickleLoads(d), AddLoad(e, "pickle"))
    ELSE UnknownType(h, data, e)


----------------------------------------------------------------------------
(* The values the calls are tried on *)

Atoms == {PyNone, PyBool(TRUE), PyInt(1), PyFloat(1), PyStr("x")}
Keys == {PyStr("k"), PyInt(2)}

RECURSIVE ValuesOfSize(_)
RECURSIVE SeqsOfSize(_)
RECURSIVE PairsOfSize(_)

\* the plain values of exactly n nodes: scalars, lists, tuples and dicts of them
ValuesOfSize(n) ==
    IF n = 1 THEN Atoms \cup {PyList(<<>>), PyTuple(<<>>), PyDict(<<>>)}
    ELSE {PyList(s) : s \in SeqsOfSize(n - 1)}
         \cup {PyTuple(s) : s \in SeqsOfSize(n - 1)}
         \cup {PyDict(q) : q \in PairsOfSize(n - 1)}

\* the non-empty sequences of plain values of n nodes in all
SeqsOfSize(n) ==
    {<<v>> : v \in ValuesOfSize(n)}
    \cup UNION {{<<v>> \o s : v \in ValuesOfSize(k), s \in SeqsOfSize(n - k)} : k \in 1..(n - 1)}

\* the non-empty dict contents, keys distinct, whose values have n nodes in all
PairsOfSize(n) ==
    {<< <<k, v>> >> : k \in Keys, v \in ValuesOfSize(n)}
    \cup UNION {{r \in {<< <<k, v>> >> \o q : k \in Keys, v \in ValuesOfSize(j),
                                                q \in PairsOfSize(n - j)} :
                    \A i \in 2..Len(r) : r[i][1] # r[1][1]}
                : j \in 1..(n - 1)}

PlainValues == UNION {ValuesOfSize(n) : n \in 1..MaxNodes}

\* objects and containers of objects handed to serialize
SerializeInputs ==
    {PyInt(1), PyStr("x"), PyBytes(<<"raw", "ab">>),
     Obj("UUID", PyInt(1)), Obj("MyUUID", PyInt(1)), Obj("Lock", PyBool(TRUE)),
     Obj("Point", PyInt(1)), Obj("State", PyInt(1)), Obj("Blob", PyInt(1)),
     Obj("Conf", PyDict(<< <<PyStr("x"), PyInt(1)>> >>)),
     Obj("Conf", PyDict(<< <<PyStr("p"), Obj("Point", PyInt(1))>> >>)),
     Obj("Conf", PyDict(<< <<PyStr("s"), Obj("State", PyInt(1))>> >>)),
     PyList(<<Obj("UUID", PyInt(1)), PyInt(1)>>),
     PyList(<<Obj("Point", PyInt(1))>>),
     PyTuple(<<Obj("Blob", PyInt(1))>>),
     PySet(<<PyInt(1), PyStr("x")>>),
     PyDict(<< <<PyInt(2), PyStr("x")>> >>),
     PyDict(<< <<PyStr("k"), PyBytes(<<"raw", "ab">>)>> >>),
     PyDict(<< <<PyStr("k"), Obj("Point", PyInt(1))>> >>),
     PyDict(<< <<PyStr("b"), PyInt(2)>>, <<PyStr("a"), PyInt(1)>> >>),
     Obj("SerList", PyList(<<PyInt(1)>>)), Obj("RegList", PyList(<<PyInt(1)>>)),
     Obj("MyInt", PyInt(1)), Obj("ShadowInt", PyInt(1)),
     Obj("Local", PyDict(<<>>)), Obj("LocalBlob", PyInt(1))}

\* hand-written trees handed to deserialize
DeserializeInputs ==
    {PyInt(1),
     Node("pickle", Absent, Absent, PickleDumps(Obj("Point", PyInt(1)))),
     Node("secure-pickle", Absent, Absent, Hex(PickleDumps(Obj("Point", PyInt(1))))),
     Node("list", Absent, Absent,
          PyList(<<Node("pickle", Absent, Absent, PickleDumps(Obj("Point", PyInt(1))))>>)),
     Node("list", Absent, Absent,
          PyList(<<Node("class", "app", "Conf", PyDict(<<>>))>>)),
     Node("class", "app", "Conf", PyDict(<< <<PyStr("x"), PyInt(1)>> >>)),
     Node("class", "app", "Conf",
          PyDict(<< <<PyStr("c"), Node("class", "app", "Conf", PyDict(<<>>))>> >>)),
     Node("class", "app", "Blob", PickleDumps(Obj("Blob", PyInt(1)))),
     Node("class", "app", "Point", PyDict(<<>>)),
     Node("class", "nowhere", "Conf", PyDict(<<>>)),
     Node("handler", "uuid", "UUID", Hex(PyBytes(<<"uuid", 1>>))),
     Node("handler", "app", "MyUUID", Hex(PyBytes(<<"uuid", 1>>))),
     Node("handler", "app", "Point", PyInt(1)),
     Node("handler", "app", "Point", PyList(<<PyInt(1)>>)),
     Node("handler", "app", "State", PyInt(1)),
     Node("bytes", Absent, Absent, Hex(PyBytes(<<"raw", "ab">>))),
     Node("frozenset", Absent, Absent, PyList(<<>>)),
     Node(Absent, Absent, Absent, PyInt(1)),
     PyList(<<PyInt(1)>>),
     Node("list", Absent, Absent,
          PyList(<<PyInt(1), Node("frozenset", Absent, Absent, PyList(<<>>))>>)),
     Node("dict", Absent, Absent,
          PyDict(<< <<PyStr("k"), Node(Absent, Absent, Absent, PyInt(1))>> >>)),
     Node("class", "app", "make.<locals>.LocalBlob", PickleDumps(PyInt(1))),
     Node("class", "app", "Local", PyDict(<<>>)),
     Node("class", "app", "Outer.Inner", PyDict(<<>>)),
     Node("class", "app", "Outer.Gone", PyDict(<<>>))}

\* the values and classes support is asked about
SupportInputs ==
    {PyType(c) : c \in {"UUID", "MyUUID", "Lock", "Point", "int"}}
    \cup {Obj("UUID", PyInt(1)), Obj("MyUUID", PyInt(1)), Obj("Point", PyInt(1)), PyInt(1)}

\* the namespaces handed to deserialize as global_
Globals ==
    {PyNone, <<"ns", {}>>, <<"ns", {"Conf", "Blob", "Point", "Local", "LocalBlob", "Outer"}>>}

\* the types the program registers converters for, and the functions it may give
RegTypes == {"MyUUID", "Point"}
\* the types it registers a to-portable function for: also its subclass of list
SerRegTypes == RegTypes \cup {"RegList"}
UserSerFns == {"state_of", "boxed"}
UserDeFns == {"of_state", "unboxed"}


----------------------------------------------------------------------------
(* PythonCodeInterface: the 'exec' command *)

Ellipsis == <<"Ellipsis">>
Unbound == <<"unbound">>
NoSession == <<"nosession">>

\* the names the code of the model binds or reads
ExecNames == {"x", "f", "set_result"}

\* the globals session_init creates: none of these names is bound
FreshGlobals == [n \in ExecNames |-> Unbound]

\* the statements of the code handed to the command, one to a line:
\*   x = v     set_result(v)     def f(): set_result(v)     f()     x     raise
\* The function a def statement of the n-th command binds is <<"fn", n, v>>:
\* its globals are the dict of that command, where set_result is the function
\* of that command, <<"set_result", n>>.
Assign(x, v) == <<"assign", x, v>>
SetResult(v) == <<"set_result", v>>
Def(f, v) == <<"def", f, v>>
CallFn(f) == <<"call", f>>
Name(x) == <<"name", x>>
RaiseStmt == <<"raise">>

ExecStmts ==
    {Assign("x", v) : v \in {PyInt(1), PyInt(2)}}
    \cup {SetResult(v) : v \in {PyInt(1), PyNone, Ellipsis}}
    \cup {Def("f", PyInt(1)), CallFn("f"), Name("x"), RaiseStmt}

\* the code of a command: one line or two
ExecCodes == {<<st>> : st \in ExecStmts} \cup {<<a, b>> : a, b \in ExecStmts}

\* a call of the function set_result of command k, made while command n runs:
\* the value goes to the variable result of command k
CallSetResult(s, k, v, n) ==
    [s EXCEPT !.passed = Append(@, v),
              !.result = IF k = n THEN v ELSE @]

\* one statement of command n, run on the globals s.env
RunStmt(st, s, n) ==
    CASE st[1] = "assign" -> [s EXCEPT !.env[st[2]] = st[3]]
      [] st[1] = "set_result" -> CallSetResult(s, s.env["set_result"][2], st[2], n)
      [] st[1] = "def" -> [s EXCEPT !.env[st[2]] = <<"fn", n, st[3]>>]
      [] st[1] = "call" ->
            IF s.env[st[2]] = Unbound THEN [s EXCEPT !.ok = FALSE]
            ELSE CallSetResult(s, s.env[st[2]][2], s.env[st[2]][3], n)
      [] st[1] = "name" ->
            IF s.env[st[2]] = Unbound THEN [s EXCEPT !.ok = FALSE]
            ELSE [s EXCEPT !.value = s.env[st[2]]]
      [] OTHER -> [s EXCEPT !.ok = FALSE]

RECURSIVE RunCode(_, _, _)
\* exec(code, old_dict): the statements in turn, up to the first that raises
RunCode(code, s, n) ==
    IF code = <<>> \/ ~s.ok THEN s
    ELSE RunCode(Tail(code), RunStmt(Head(code), s, n), n)

\* whether eval compiles the code: one line, and an expression
IsExpression(code) == Len(code) = 1 /\ code[1][1] \in {"set_result", "call", "name"}

\* func(code, old_dict) of command n: ret is what func returns, None for exec
RunFunc(code, type, old_dict, n) ==
    LET s0 == [env |-> old_dict, result |-> Ellipsis, passed |-> <<>>, ok |-> TRUE,
               value |-> PyNone]
        s == RunCode(code, s0, n) IN
    IF type = "eval" THEN
        IF ~IsExpression(code) THEN [s0 EXCEPT !.ok = FALSE]
        ELSE s
    ELSE [s EXCEPT !.value = PyNone]

\* whether the last line of the code is made of the characters of a name
IsNameLike(st) == st[1] = "name"

\* what cmd_exec returns once func has returned
ExecReturn(code, type, s) ==
    LET last_sentence == code[Len(code)] IN
    IF s.value # PyNone THEN s.value
    ELSE IF type = "eval" THEN s.value
    ELSE IF s.result # Ellipsis THEN s.result
    ELSE IF IsNameLike(last_sentence) THEN
        IF s.env[last_sentence[2]] = Unbound THEN PyNone ELSE s.env[last_sentence[2]]
    ELSE PyNone

NoCall == [code |-> <<>>, type |-> "", ok |-> TRUE, val |-> PyNone, pre |-> NoSession,
           passed |-> <<>>]

\* session_init(session)
SessionInit ==
    /\ session = NoSession
    /\ session' = FreshGlobals
    /\ UNCHANGED <<ncalls, call>>
    /\ UNCHANGED <<serVars, consoleVars, lifeVars>>

\* cmd_exec(session, message) with message.content.json = {code, type}
CmdExec(code, type) ==
    /\ session # NoSession
    /\ ncalls < MaxCalls
    /\ LET n == ncalls + 1
           old_dict == [session EXCEPT !["set_result"] = <<"set_result", n>>]
           s == RunFunc(code, type, old_dict, n) IN
        /\ session' = IF s.ok THEN s.env ELSE session
        /\ call' = [code |-> code, type |-> type, ok |-> s.ok,
                    val |-> IF s.ok THEN ExecReturn(code, type, s) ELSE NoData,
                    pre |-> session, passed |-> s.passed]
    /\ ncalls' = ncalls + 1
    /\ UNCHANGED <<serVars, consoleVars, lifeVars>>

NextExec ==
    \/ SessionInit
    \/ \E code \in ExecCodes, type \in {"exec", "eval"} : CmdExec(code, type)

----------------------------------------------------------------------------
(* ainput and aprint: the console lock *)

Tasks == 1..MaxTasks

\* a task that has not called ainput or aprint yet
NewTask == [kind |-> "none", pc |-> "new"]

\* _on_reading.acquire() returns at once when the lock is free and no task is
\* suspended in acquire before the caller
AcquiresAtOnce == ~locked /\ waiters = <<>>

\* the lock once aprint has gone from print to the end: release() is the
\* statement after print(string), so it runs only when print returns
AfterPrint(print_raises) == print_raises

\* ainput(prompt) up to its first suspension: in acquire, or in the executor
\* call with the lock held
Ainput(t) ==
    /\ task[t].pc = "new"
    /\ IF AcquiresAtOnce
       THEN /\ locked' = TRUE
            /\ task' = [task EXCEPT ![t] = [kind |-> "ainput", pc |-> "reading"]]
            /\ UNCHANGED waiters
       ELSE /\ waiters' = Append(waiters, t)
            /\ task' = [task EXCEPT ![t] = [kind |-> "ainput", pc |-> "waiting"]]
            /\ UNCHANGED locked
    /\ UNCHANGED <<serVars, execVars, lifeVars>>

\* aprint(string) up to its suspension in acquire, or to its end: nothing
\* suspends between acquire returning and release
Aprint(t, print_raises) ==
    /\ task[t].pc = "new"
    /\ IF AcquiresAtOnce
       THEN /\ locked' = AfterPrint(print_raises)
            /\ task' = [task EXCEPT ![t] = [kind |-> "aprint",
                            pc |-> IF print_raises THEN "raised" ELSE "returned"]]
            /\ UNCHANGED waiters
       ELSE /\ waiters' = Append(waiters, t)
            /\ task' = [task EXCEPT ![t] = [kind |-> "aprint", pc |-> "waiting"]]
            /\ UNCHANGED locked
    /\ UNCHANGED <<serVars, execVars, lifeVars>>

\* the first task suspended in acquire goes on once the lock has been released
Resume(t, print_raises) ==
    /\ waiters # <<>> /\ Head(waiters) = t
    /\ ~locked
    /\ waiters' = Tail(waiters)
    /\ IF task[t].kind = "ainput"
       THEN /\ locked' = TRUE
            /\ task' = [task EXCEPT ![t].pc = "reading"]
       ELSE /\ locked' = AfterPrint(print_raises)
            /\ task' = [task EXCEPT ![t].pc = IF print_raises THEN "raised" ELSE "returned"]
    /\ UNCHANGED <<serVars, execVars, lifeVars>>

\* input() has returned, or raised, in the executor: the async with block of
\* ainput is left and releases the lock
ReadEnds(t, input_raises) ==
    /\ task[t].pc = "reading"
    /\ locked' = FALSE
    /\ task' = [task EXCEPT ![t].pc = IF input_raises THEN "raised" ELSE "returned"]
    /\ UNCHANGED waiters
    /\ UNCHANGED <<serVars, execVars, lifeVars>>

\* the task is cancelled where it is suspended: in acquire it leaves the
\* queue, in the executor call it leaves the async with block
Cancel(t) ==
    /\ task[t].pc \in {"waiting", "reading"}
    /\ IF task[t].pc = "waiting"
       THEN /\ waiters' = SelectSeq(waiters, LAMBDA w : w # t)
            /\ UNCHANGED locked
       ELSE /\ locked' = FALSE
            /\ UNCHANGED waiters
    /\ task' = [task EXCEPT ![t].pc = "cancelled"]
    /\ UNCHANGED <<serVars, execVars, lifeVars>>

NextConsole ==
    \/ \E t \in Tasks : Ainput(t)
    \/ \E t \in Tasks, print_raises \in BOOLEAN : Aprint(t, print_raises)
    \/ \E t \in Tasks, print_raises \in BOOLEAN : Resume(t, print_raises)
    \/ \E t \in Tasks, input_raises \in BOOLEAN : ReadEnds(t, input_raises)
    \/ \E t \in Tasks : Cancel(t)

----------------------------------------------------------------------------
(* AsyncLifeTimeManager *)

Futures == 1..MaxFutures

RECURSIVE SweepFrom(_, _, _)
\* for task in self._close_tasks: if task.done(): self._close_tasks.remove(task)
\* from position i on: the loop steps to the next position after a removal
\* too, so the element that moved into the freed place is not looked at
SweepFrom(list, i, finished) ==
    IF i > Len(list) THEN list
    ELSE IF list[i] \in finished
         THEN SweepFrom(SubSeq(list, 1, i - 1) \o SubSeq(list, i + 1, Len(list)), i + 1, finished)
         ELSE SweepFrom(list, i + 1, finished)

\* a slip: the list is swept once and never tested again
WhileTasksOnce(list, swept) == ~swept /\ list # <<>>

\* while self._close_tasks: the test made before the first round and after
\* every sweep
WhileTasks(list, swept) == list # <<>>

\* wait_close from the test of its while loop to its next suspension or return
LoopFrom(list, swept) ==
    IF WhileTasks(list, swept)
    THEN /\ wc' = "wait"
         /\ waited' = {list[i] : i \in DOMAIN list}
    ELSE /\ wc' = "returned"
         /\ waited' = {}

\* close()
Close ==
    /\ closed' = TRUE
    /\ close_called' = TRUE
    /\ UNCHANGED <<close_tasks, added, done, wc, waited>>
    /\ UNCHANGED <<serVars, execVars, consoleVars>>

\* the program appends a future to _close_tasks
AddCloseTask(f) ==
    /\ f \notin added
    /\ close_tasks' = Append(close_tasks, f)
    /\ added' = added \cup {f}
    /\ UNCHANGED <<closed, close_called, done, wc, waited>>
    /\ UNCHANGED <<serVars, execVars, consoleVars>>

\* a future completes
Complete(f) ==
    /\ f \notin done
    /\ done' = done \cup {f}
    /\ UNCHANGED <<closed, close_called, close_tasks, added, wc, waited>>
    /\ UNCHANGED <<serVars, execVars, consoleVars>>

\* wait_close() is called: it suspends on the event unless the event is set
WaitClose ==
    /\ wc = "new"
    /\ IF closed THEN LoopFrom(close_tasks, FALSE)
       ELSE wc' = "event" /\ waited' = {}
    /\ UNCHANGED <<closed, close_called, close_tasks, added, done>>
    /\ UNCHANGED <<serVars, execVars, consoleVars>>

\* the event is set: wait_close goes on from await self._close_event.wait()
EventWakes ==
    /\ wc = "event" /\ closed
    /\ LoopFrom(close_tasks, FALSE)
    /\ UNCHANGED <<closed, close_called, close_tasks, added, done>>
    /\ UNCHANGED <<serVars, execVars, consoleVars>>

\* every future asyncio.wait was given has completed: wait_close sweeps the
\* list and tests it again
WaitWakes ==
    /\ wc = "wait" /\ waited \subseteq done
    /\ close_tasks' = SweepFrom(close_tasks, 1, done)
    /\ LoopFrom(close_tasks', TRUE)
    /\ UNCHANGED <<closed, close_called, added, done>>
    /\ UNCHANGED <<serVars, execVars, consoleVars>>

NextLife ==
    \/ Close
    \/ \E f \in Futures : AddCloseTask(f)
    \/ \E f \in Futures : Complete(f)
    \/ WaitClose
    \/ EventWakes
    \/ WaitWakes

----------------------------------------------------------------------------
(* The module as a state machine *)

\* the registry once common.py is imported: the uuid.UUID and asyncio.Lock handlers
InitialHandlers ==
    << [type |-> "UUID", ser |-> "uuid_hex", de |-> "uuid_new"],
       [type |-> "Lock", ser |-> "lock_locked", de |-> "lock_new"] >>

DefaultOpt == [pickle_all |-> FALSE, unpickle_all |-> FALSE, global_ |-> PyNone]
NoRet == [ok |-> TRUE, val |-> NoData, err |-> NoErr]
Outcome(r) == [ok |-> r.ok, val |-> r.val, err |-> r.err]

\* a call has been made and its result not yet taken
Busy == op \in {"lookup", "support", "serialize", "deserialize"}

Init ==
    /\ handlers = InitialHandlers
    /\ nregs = 0
    /\ op = "idle"
    /\ arg = NoData
    /\ opt = DefaultOpt
    /\ ret = NoRet
    /\ eff = NoEff
    /\ origin = NoData
    /\ before = InitialHandlers
    /\ overwritten = {}
    /\ session = NoSession
    /\ ncalls = 0
    /\ call = NoCall
    /\ locked = FALSE
    /\ waiters = <<>>
    /\ task = [t \in Tasks |-> NewTask]
    /\ closed = FALSE
    /\ close_called = FALSE
    /\ close_tasks = <<>>
    /\ added = {}
    /\ done = {}
    /\ wc = "new"
    /\ waited = {}

\* the functions a registration replaces
Replaced(h, t, dir, fn) ==
    IF t \in Registered(h) /\ Entry(h, t)[dir] \notin {Unset, fn}
    THEN {<<t, dir, Entry(h, t)[dir]>>} ELSE {}

\* SerializeHandler(t).serializer(fn)
RegisterSerializer(t, fn) ==
    /\ UNCHANGED <<execVars, consoleVars, lifeVars>>
    /\ ~Busy
    /\ nregs < MaxRegs
    /\ handlers' = SetSerializer(handlers, t, fn)
    /\ overwritten' = (overwritten \cup Replaced(handlers, t, "ser", fn)) \ {<<t, "ser", fn>>}
    /\ nregs' = nregs + 1
    /\ before' = handlers
    /\ op' = "idle" /\ arg' = NoData /\ opt' = DefaultOpt /\ ret' = NoRet
    /\ eff' = NoEff /\ origin' = NoData

\* SerializeHandler(t).deserializer(fn)
RegisterDeserializer(t, fn) ==
    /\ UNCHANGED <<execVars, consoleVars, lifeVars>>
    /\ ~Busy
    /\ nregs < MaxRegs
    /\ handlers' = SetDeserializer(handlers, t, fn)
    /\ overwritten' = (overwritten \cup Replaced(handlers, t, "de", fn)) \ {<<t, "de", fn>>}
    /\ nregs' = nregs + 1
    /\ before' = handlers
    /\ op' = "idle" /\ arg' = NoData /\ opt' = DefaultOpt /\ ret' = NoRet
    /\ eff' = NoEff /\ origin' = NoData

\* SerializeHandler(t) on its own: the converter of t is looked up
Lookup(t) ==
    /\ UNCHANGED <<execVars, consoleVars, lifeVars>>
    /\ ~Busy
    /\ nregs < MaxRegs
    /\ handlers' = HandlerNew(handlers, t)
    /\ nregs' = nregs + 1
    /\ before' = handlers
    /\ op' = "lookup" /\ arg' = PyType(t) /\ opt' = DefaultOpt
    /\ ret' = [ok |-> TRUE, val |-> <<"SerializeHandler", t>>, err |-> NoErr]
    /\ eff' = NoEff /\ origin' = NoData
    /\ UNCHANGED overwritten

\* SerializeHandler.support(x)
Support(x) ==
    /\ UNCHANGED <<execVars, consoleVars, lifeVars>>
    /\ ~Busy
    /\ op' = "support" /\ arg' = x /\ opt' = DefaultOpt
    /\ ret' = [ok |-> TRUE, val |-> PyBool(support(handlers, x)), err |-> NoErr]
    /\ eff' = NoEff /\ origin' = NoData
    /\ before' = handlers
    /\ UNCHANGED <<handlers, nregs, overwritten>>

\* serialize(v, pickle_all)
Serialize(v, pickle_all) ==
    /\ UNCHANGED <<execVars, consoleVars, lifeVars>>
    /\ ~Busy
    /\ LET r == serialize(handlers, v, pickle_all, NoEff) IN
        /\ handlers' = r.reg
        /\ ret' = Outcome(r)
        /\ eff' = r.eff
    /\ op' = "serialize" /\ arg' = v
    /\ opt' = [DefaultOpt EXCEPT !.pickle_all = pickle_all]
    /\ origin' = NoData
    /\ before' = handlers
    /\ UNCHANGED <<nregs, overwritten>>

\* deserialize(tree, global_, unpickle_all)
Deserialize(tree, global_, unpickle_all) ==
    /\ UNCHANGED <<execVars, consoleVars, lifeVars>>
    /\ ~Busy
    /\ LET r == deserialize(handlers, tree, global_, unpickle_all, NoEff) IN
        /\ handlers' = r.reg
        /\ ret' = Outcome(r)
        /\ eff' = r.eff
    /\ op' = "deserialize" /\ arg' = tree
    /\ opt' = [DefaultOpt EXCEPT !.global_ = global_, !.unpickle_all = unpickle_all]
    /\ origin' = NoData
    /\ before' = handlers
    /\ UNCHANGED <<nregs, overwritten>>

\* deserialize(serialize(v, pickle_all), global_, unpickle_all): the second call
DeserializeResult(global_, unpickle_all) ==
    /\ UNCHANGED <<execVars, consoleVars, lifeVars>>
    /\ op = "serialize" /\ ret.ok
    /\ LET r == deserialize(handlers, ret.val, global_, unpickle_all, NoEff) IN
        /\ handlers' = r.reg
        /\ ret' = Outcome(r)
        /\ eff' = r.eff
    /\ op' = "deserialize" /\ arg' = ret.val
    /\ opt' = [opt EXCEPT !.global_ = global_, !.unpickle_all = unpickle_all]
    /\ origin' = arg
    /\ before' = handlers
    /\ UNCHANGED <<nregs, overwritten>>

\* the caller takes the result of the call
Return ==
    /\ UNCHANGED <<execVars, consoleVars, lifeVars>>
    /\ Busy
    /\ op' = "idle" /\ arg' = NoData /\ opt' = DefaultOpt /\ ret' = NoRet
    /\ eff' = NoEff /\ origin' = NoData
    /\ before' = handlers
    /\ UNCHANGED <<handlers, nregs, overwritten>>

Next ==
    \/ \E t \in SerRegTypes, fn \in UserSerFns : RegisterSerializer(t, fn)
    \/ \E t \in RegTypes, fn \in UserDeFns : RegisterDeserializer(t, fn)
    \/ \E t \in RegTypes : Lookup(t)
    \/ \E x \in SupportInputs : Support(x)
    \/ \E v \in SerializeInputs, pickle_all \in BOOLEAN : Serialize(v, pickle_all)
    \/ \E tree \in DeserializeInputs, global_ \in Globals, unpickle_all \in BOOLEAN :
          Deserialize(tree, global_, unpickle_all)
    \/ \E global_ \in Globals, unpickle_all \in BOOLEAN : DeserializeResult(global_, unpickle_all)
    \/ Return

Spec == Init /\ [][Next]_vars

\* one session of PythonCodeInterface and the commands it runs
SpecExec == Init /\ [][NextExec]_vars

\* the tasks of one event loop that call ainput and aprint
SpecConsole == Init /\ [][NextConsole]_vars

\* one AsyncLifeTimeManager, its wait_close() call and the futures of its
\* list; the event loop runs a coroutine that can go on
SpecLife ==
    Init /\ [][NextLife]_vars /\ WF_vars(EventWakes) /\ WF_vars(WaitWakes)

----------------------------------------------------------------------------
(* Round trips of plain values, with default flags *)

InitPlain ==
    /\ handlers = InitialHandlers
    /\ nregs = 0
    /\ op = "idle"
    /\ arg \in PlainValues
    /\ opt = DefaultOpt
    /\ ret = NoRet
    /\ eff = NoEff
    /\ origin = NoData
    /\ before = InitialHandlers
    /\ overwritten = {}
    /\ session = NoSession
    /\ ncalls = 0
    /\ call = NoCall
    /\ locked = FALSE
    /\ waiters = <<>>
    /\ task = [t \in Tasks |-> NewTask]
    /\ closed = FALSE
    /\ close_called = FALSE
    /\ close_tasks = <<>>
    /\ added = {}
    /\ done = {}
    /\ wc = "new"
    /\ waited = {}

\* serialize(v)
SerializePlain ==
    /\ UNCHANGED <<execVars, consoleVars, lifeVars>>
    /\ op = "idle"
    /\ LET r == serialize(handlers, arg, FALSE, NoEff) IN
        /\ handlers' = r.reg
        /\ ret' = Outcome(r)
        /\ eff' = r.eff
    /\ op' = "serialize"
    /\ before' = handlers
    /\ UNCHANGED <<nregs, arg, opt, origin, overwritten>>

\* deserialize(serialize(v))
DeserializePlain ==
    /\ UNCHANGED <<execVars, consoleVars, lifeVars>>
    /\ op = "serialize" /\ ret.ok
    /\ LET r == deserialize(handlers, ret.val, PyNone, FALSE, NoEff) IN
        /\ handlers' = r.reg
        /\ ret' = Outcome(r)
        /\ eff' = r.eff
    /\ op' = "deserialize" /\ arg' = ret.val
    /\ origin' = arg
    /\ before' = handlers
    /\ UNCHANGED <<nregs, opt, overwritten>>

NextPlain == SerializePlain \/ DeserializePlain

SpecPlain == InitPlain /\ [][NextPlain]_vars


----------------------------------------------------------------------------
(* Claims C1 to C10 *)

\* C1: for every plain value v (None, bool, int, float, str and nested lists,
\* tuples and dicts of them), serialize(v) returns and deserialize of the result,
\* with default flags, returns a value equal to v: same kinds, same order.
C1_RoundTripPlain ==
    /\ op = "serialize" => ret.ok
    /\ op = "deserialize" => (ret.ok /\ ret.val = origin)

\* the tuple ({2: 'x'},) has gone through the round trip
C1_Witness ==
    /\ op = "deserialize" /\ ret.ok
    /\ origin = PyTuple(<<PyDict(<< <<PyInt(2), PyStr("x")>> >>)>>)
    /\ ret.val = origin

\* an object serialize has no rule for but the fallback: it is not Serializable,
\* not a built-in container or scalar, it is an instance of no registered type
\* and it has no state-capture pair
IsFallbackObject(h, v) ==
    /\ Kind(v) = "obj"
    /\ ~isinstance(v, "Serializable")
    /\ ~\E t \in {"list", "set", "tuple", "dict", "int", "float", "str", "bool",
                   "NoneType", "bytes"} : isinstance(v, t)
    /\ ~support(h, v)
    /\ ~HasStatePair(TypeOf(v))

C3_RefusesBothBlobs ==
    (op = "deserialize" /\ opt = DefaultOpt /\ Kind(arg) = "node"
        /\ arg[2] \in {"pickle", "secure-pickle"})
    => (~ret.ok /\ eff.loads = {})

\* C4 (as claimed): when global_ holds the class a 'class' node names, no module
\* is imported while the instance is rebuilt.
C4_NoImportWithGlobal ==
    (op = "deserialize" /\ Kind(arg) = "node" /\ arg[2] = "class"
        /\ opt.global_ # PyNone /\ arg[4] \in opt.global_[2])
    => eff.imports = {}

\* C5 (as claimed): a 'handler' node naming a type with no entry in the registry
\* fails with the error of the support check, calls no from-portable function
\* and returns nothing.
C5_HandlerNotRegistered ==
    (op = "deserialize" /\ Kind(arg) = "node" /\ arg[2] = "handler"
        /\ ClassAt(arg[3], arg[4]) # "" /\ arg[4] \notin Registered(before))
    => /\ ~ret.ok /\ ret.val = NoData
       /\ ret.err = Err("ValueError", "not-support")
       /\ eff.called = {}

\* the exact type support is asked about
ExactType(x) == IF Kind(x) = "type" THEN x[2] ELSE TypeOf(x)

\* C6 (as claimed): support(x) is true exactly when the exact type of x has an
\* entry in the registry.
C6_SupportIsExact ==
    op = "support" => ret.val = PyBool(ExactType(arg) \in Registered(before))

C8_LookupFails ==
    (op = "lookup" /\ arg[2] \notin Registered(before))
    => (~ret.ok /\ arg[2] \notin Registered(handlers))

\* C8 (amended): SerializeHandler(T) never fails; for a type never registered it
\* appends an entry for T with no converter function and leaves the other
\* entries as they were; for a registered type the registry is unchanged.
C8_LookupCreates ==
    op = "lookup" =>
        /\ ret.ok
        /\ IF arg[2] \in Registered(before) THEN handlers = before
           ELSE handlers = Append(before, [type |-> arg[2], ser |-> Unset, de |-> Unset])

\* a type never registered has been looked up
C8_Witness ==
    op = "lookup" /\ arg[2] \notin Registered(before) /\ arg[2] \in Registered(handlers)

\* C9: serialize leaves the registry as it was, whether it returns or raises.
C9_SerializeKeepsRegistry ==
    op = "serialize" => handlers = before

\* an instance of an unregistered subclass went through the converter of its base
C9_Witness ==
    /\ op = "serialize" /\ ret.ok
    /\ eff.called # {} /\ TypeOf(arg) \notin Registered(handlers)

RECURSIVE JsonSafe(_)
\* a tree of strings, numbers, booleans, null, lists and mappings with string keys
JsonSafe(v) ==
    CASE Kind(v) \in {"None", "bool", "int", "float", "str"} -> TRUE
      [] Kind(v) = "list" -> \A i \in DOMAIN v[2] : JsonSafe(v[2][i])
      [] Kind(v) = "dict" -> \A i \in DOMAIN v[2] : Kind(v[2][i][1]) = "str" /\ JsonSafe(v[2][i][2])
      [] Kind(v) = "node" -> v[5] = NoData \/ JsonSafe(v[5])
      [] OTHER -> FALSE

\* C10 (as claimed): every value serialize returns with default flags is JSON-safe.
C10_OutputIsJsonSafe ==
    (op = "serialize" /\ ret.ok /\ ~opt.pickle_all) => JsonSafe(ret.val)


----------------------------------------------------------------------------
(* Claims C11 to C19 *)

Scalars == {"int", "float", "str", "bool", "NoneType"}

\* the test of each rule of serialize, by its place in the order: cooperating,
\* sequence, mapping, scalar, bytes, registered, state pair, fallback
RuleTest(k, h, v) ==
    CASE k = 1 -> isinstance(v, "Serializable")
      [] k = 2 -> \E t \in {"list", "set", "tuple"} : isinstance(v, t)
      [] k = 3 -> isinstance(v, "dict")
      [] k = 4 -> \E t \in Scalars : isinstance(v, t)
      [] k = 5 -> isinstance(v, "bytes")
      [] k = 6 -> \E t \in Registered(h) : isinstance(v, t)
      [] k = 7 -> HasStatePair(TypeOf(v))
      [] OTHER -> TRUE

\* the rules whose test a value passes
MatchingRules(h, v) == {k \in 1..8 : RuleTest(k, h, v)}

\* the rule a returned value shows: a 'pickle' node comes from the scalar rule
\* when the value is a scalar and from the fallback otherwise
RuleOfResult(v, out) ==
    IF Kind(out) # "node" THEN 4
    ELSE CASE out[2] = "class" -> 1
           [] out[2] \in {"list", "set", "tuple"} -> 2
           [] out[2] = "dict" -> 3
           [] out[2] = "bytes" -> 5
           [] out[2] = "handler" -> 6
           [] out[2] = "secure-pickle" -> 7
           [] OTHER -> IF \E t \in Scalars : isinstance(v, t) THEN 4 ELSE 8

\* C11: the variant serialize returns is the one of the first rule, in the fixed
\* order, whose test the value passes: a cooperating object that is also a list
\* gives a 'class' node, an instance of a registered type that is also a list
\* gives a 'list' node.
C11_FirstRuleWins ==
    (op = "serialize" /\ ret.ok)
    => /\ \A k \in MatchingRules(before, arg) : RuleOfResult(arg, ret.val) <= k
       /\ RuleOfResult(arg, ret.val) \in MatchingRules(before, arg)
       /\ TypeOf(arg) = "SerList" => ret.val[2] = "class"
       /\ TypeOf(arg) = "RegList" => ret.val[2] = "list"

\* an instance of a registered subclass of list came out as a 'list' node
C11_Witness ==
    /\ op = "serialize" /\ ret.ok
    /\ TypeOf(arg) = "RegList" /\ "RegList" \in Registered(before)
    /\ MatchingRules(before, arg) = {2, 6, 8}
    /\ ret.val[2] = "list"

\* a value the scalar rule takes whose class is not one of the built-in scalars
IsScalarSubclass(v) ==
    /\ Kind(v) = "obj"
    /\ \E t \in Scalars : isinstance(v, t)
    /\ ~isinstance(v, "Serializable")
    /\ ~\E t \in {"list", "set", "tuple", "dict"} : isinstance(v, t)

\* C12 (as claimed): for a value of a proper subclass of int, float, str or bool
\* serialize raises the unsupported-type error when pickle_all is false and
\* returns a 'pickle' node when it is true: never the value as a plain scalar.
C12_SubclassNeverPlain ==
    (op = "serialize" /\ IsScalarSubclass(arg))
    => IF opt.pickle_all
       THEN ret.ok /\ ret.val = Node("pickle", Absent, Absent, PickleDumps(arg))
       ELSE ~ret.ok /\ ret.err = Err("TypeError", "inherited")

\* C13: for an object none of the rules before the last takes, and that pickle
\* can encode, serialize returns a 'pickle' node when pickle_all is true and
\* raises the unsupported-type error when it is false.
C13_Fallback ==
    (op = "serialize" /\ IsFallbackObject(before, arg) /\ CanPickle(arg))
    => IF opt.pickle_all
       THEN ret.ok /\ ret.val = Node("pickle", Absent, Absent, PickleDumps(arg))
       ELSE ~ret.ok /\ ret.val = NoData /\ ret.err = Err("TypeError", "cannot-serialize")

\* the fallback has pickled an object
C13_Witness ==
    /\ op = "serialize" /\ arg = Obj("Point", PyInt(1)) /\ IsFallbackObject(before, arg)
    /\ opt.pickle_all /\ ret.ok /\ ret.val[2] = "pickle"

KnownTags ==
    {"class", "list", "set", "tuple", "dict", "bytes", "handler", "secure-pickle", "pickle"}

\* an input deserialize hands back as it is
IsScalar(t) == \E c \in Scalars : isinstance(t, c)

\* an input that is not a scalar and has no 'type', or one no branch knows
IsBadNode(t) ==
    /\ ~IsScalar(t)
    /\ (Kind(t) # "node" \/ t[2] = Absent \/ t[2] \notin KnownTags)

RECURSIVE BadNodeFirst(_)
\* a tree that is such an input, or a sequence or mapping node in which such an
\* input comes after scalars only
BadNodeFirst(t) ==
    \/ IsBadNode(t)
    \/ /\ Kind(t) = "node" /\ t[2] \in {"list", "set", "tuple"} /\ Kind(t[5]) = "list"
       /\ \E i \in DOMAIN t[5][2] :
            /\ BadNodeFirst(t[5][2][i])
            /\ \A j \in 1..(i - 1) : IsScalar(t[5][2][j])
    \/ /\ Kind(t) = "node" /\ t[2] = "dict" /\ Kind(t[5]) = "dict"
       /\ \E i \in DOMAIN t[5][2] :
            /\ BadNodeFirst(t[5][2][i][2])
            /\ \A j \in 1..(i - 1) : IsScalar(t[5][2][j][2])

\* C14: deserialize of a non-scalar input with no 'type' or with a 'type' no
\* branch knows raises the TypeError of a malformed input and returns nothing,
\* also when the input sits inside a sequence or a mapping node.
C14_MalformedFails ==
    (op = "deserialize" /\ BadNodeFirst(arg))
    => /\ ~ret.ok /\ ret.val = NoData
       /\ ret.err \in {Err("TypeError", "no-type"), Err("TypeError", "unknown-type")}

\* a node of an unknown 'type' inside a 'list' node has made the call fail
C14_Witness ==
    /\ op = "deserialize" /\ ~IsBadNode(arg) /\ BadNodeFirst(arg)
    /\ arg[2] = "list" /\ ret.err = Err("TypeError", "unknown-type")

RECURSIVE Nesting(_)
RECURSIVE MaxNesting(_)
\* how many levels of containers lie between a plain value and its deepest element
Nesting(v) ==
    CASE Kind(v) \in {"list", "tuple", "set"} -> IF v[2] = <<>> THEN 0 ELSE 1 + MaxNesting(v[2])
      [] Kind(v) = "dict" ->
            IF v[2] = <<>> THEN 0 ELSE 1 + MaxNesting([i \in DOMAIN v[2] |-> v[2][i][2]])
      [] OTHER -> 0
MaxNesting(items) ==
    IF items = <<>> THEN 0
    ELSE LET n == Nesting(Head(items))
             m == MaxNesting(Tail(items)) IN
         IF n > m THEN n ELSE m

\* the value the call in progress is about
Subject == IF op = "deserialize" THEN origin ELSE arg

\* C15 (as claimed): there is a maximum depth, below the deepest nesting of the
\* values tried, past which serialize and deserialize raise DepthExceeded and do
\* not descend.
C15_DepthExceeded ==
    op \in {"serialize", "deserialize"}
    => \E D \in 0..(MaxNodes - 2) :
          Nesting(Subject) > D
          => ~ret.ok /\ ret.err.exc = "DepthExceeded" /\ eff.deepest <= D

\* C15 (amended): serialize and deserialize have no depth limit of their own: on
\* a plain value they descend to its deepest element, whatever its nesting, and
\* return.
C15_NoDepthLimit ==
    op \in {"serialize", "deserialize"}
    => ret.ok /\ eff.deepest = Nesting(Subject)

\* a value nested two levels deep has gone through both calls
C15_Witness ==
    /\ op = "deserialize" /\ ret.ok
    /\ Nesting(origin) = 2 /\ eff.deepest = 2

\* C16 (as claimed): serialize of a scalar returns a node tagged 'Primitive'
\* whose data is the scalar.
C16_TaggedPrimitive ==
    (op = "serialize" /\ arg \in Atoms)
    => ret.ok /\ ret.val = Node("Primitive", Absent, Absent, arg)

\* C16 (amended): serialize of a scalar returns the scalar itself, with no tag,
\* and deserialize of that result returns the scalar.
C16_BarePrimitive ==
    /\ (op = "serialize" /\ arg \in Atoms) => ret.ok /\ ret.val = arg
    /\ (op = "deserialize" /\ origin \in Atoms) => ret.ok /\ arg = origin /\ ret.val = origin

\* an int has gone through both calls
C16_Witness ==
    op = "deserialize" /\ origin = PyInt(1) /\ arg = PyInt(1) /\ ret.val = PyInt(1)

\* C17: serialize of a UUID returns a 'handler' node naming module uuid and
\* class UUID whose data is the hex form of the identifier, and deserialize of
\* that node with default flags returns an equal identifier.
C17_UuidRoundTrip ==
    /\ (op = "serialize" /\ TypeOf(arg) = "UUID")
       => ret.ok /\ ret.val = Node("handler", "uuid", "UUID", Hex(PyBytes(<<"uuid", arg[3][2]>>)))
    /\ (op = "deserialize" /\ origin # NoData /\ TypeOf(origin) = "UUID"
          /\ opt.global_ = PyNone /\ ~opt.unpickle_all)
       => ret.ok /\ ret.val = origin

\* a UUID has come back from its node
C17_Witness ==
    /\ op = "deserialize" /\ origin = Obj("UUID", PyInt(1))
    /\ arg[2] = "handler" /\ opt.global_ = PyNone /\ ~opt.unpickle_all
    /\ ret.ok /\ ret.val = origin

\* the keys of a mapping, in the order it holds them
KeysOf(v) == [i \in DOMAIN DictPairs(v) |-> DictPairs(v)[i][1]]

\* C18: the 'dict' node serialize returns for a mapping holds its keys in the
\* order the mapping does, and deserialize of the node returns a mapping with
\* the same keys in the same order.
C18_InsertionOrder ==
    /\ (op = "serialize" /\ Kind(arg) = "dict" /\ ret.ok)
       => ret.val[2] = "dict" /\ KeysOf(ret.val[5]) = KeysOf(arg)
    /\ (op = "deserialize" /\ origin # NoData /\ Kind(origin) = "dict" /\ ret.ok)
       => Kind(ret.val) = "dict" /\ KeysOf(ret.val) = KeysOf(origin)

\* the mapping of 'b' then 'a' has come back with 'b' first
C18_Witness ==
    /\ op = "deserialize" /\ ret.ok
    /\ origin = PyDict(<< <<PyStr("b"), PyInt(2)>>, <<PyStr("a"), PyInt(1)>> >>)
    /\ KeysOf(arg[5]) = <<PyStr("b"), PyStr("a")>>
    /\ KeysOf(ret.val) = <<PyStr("b"), PyStr("a")>>

\* a qualified name one of whose segments is '<locals>'
HasLocals(q) == \E i \in DOMAIN Segments(q) : Segments(q)[i] = "<locals>"

\* a 'class' node a segment of whose name is not where the call looks for it:
\* in the namespace when one is given, in the imported module otherwise
SegmentMissing(t, global_) ==
    IF global_ = PyNone
    THEN t[3] \in Modules /\ ClassAt(t[3], t[4]) = Missing
    ELSE \E i \in DOMAIN Segments(t[4]) : Segments(t[4])[i] \notin global_[2]

----------------------------------------------------------------------------
(* Claim C20 *)

RECURSIVE LastBound(_, _, _, _)
\* the value a name holds once the statements have run: the one its last
\* assignment or def gave it, else the one it had
LastBound(code, x, had, n) ==
    IF code = <<>> THEN had
    ELSE LET st == code[Len(code)] IN
         IF st[1] = "assign" /\ st[2] = x THEN st[3]
         ELSE IF st[1] = "def" /\ st[2] = x THEN <<"fn", n, st[3]>>
         ELSE LastBound(SubSeq(code, 1, Len(code) - 1), x, had, n)

\* C20 (first half): after an 'exec' command that returned, the globals of the
\* session, which every later command starts from, hold each name the code
\* bound, with the value bound last, and every other name as it was.
C20_BindingsPersist ==
    (call.ok /\ call.code # <<>>)
    => \A x \in {"x", "f"} : session[x] = LastBound(call.code, x, call.pre[x], ncalls)

\* C20 (as claimed): the first half, and an exec-type command during which
\* set_result was called returns the value passed to it last.
C20_SetResultIsReturned ==
    /\ C20_BindingsPersist
    /\ (call.ok /\ call.type = "exec" /\ call.passed # <<>>)
       => call.val = call.passed[Len(call.passed)]

----------------------------------------------------------------------------
(* Claims C21 to C24 *)

\* C21 (as claimed): deserialize called with unpickle_all false runs
\* pickle.loads on bytes of its input under no tag but 'secure-pickle': a
\* 'class' node naming a Serializable class does not get its data unpickled.
C21_NoUnpickleWithoutFlag ==
    (op = "deserialize" /\ ~opt.unpickle_all) => eff.loads \subseteq {"secure-pickle"}

\* a sequence, mapping or 'class' node one of whose elements is a 'pickle' node
HoldsPickleNode(t) ==
    /\ Kind(t) = "node" /\ t[2] \in {"list", "set", "tuple", "dict", "class"}
    /\ Kind(t[5]) \in {"list", "dict"}
    /\ \E i \in DOMAIN t[5][2] :
          LET x == IF Kind(t[5]) = "list" THEN t[5][2][i] ELSE t[5][2][i][2] IN
          Kind(x) = "node" /\ x[2] = "pickle"

\* a sequence node one of whose elements is a 'class' node
HoldsClassNode(t) ==
    /\ Kind(t) = "node" /\ t[2] \in {"list", "set", "tuple"} /\ Kind(t[5]) = "list"
    /\ \E i \in DOMAIN t[5][2] : Kind(t[5][2][i]) = "node" /\ t[5][2][i][2] = "class"

\* C22 (as claimed): the flag and the namespace of the top-level deserialize
\* call hold for the nested nodes: with unpickle_all true a 'pickle' node inside
\* a container is not refused, and with a namespace a 'class' node inside a
\* container is looked up in it, so that nothing is imported for it and a class
\* the namespace lacks is not found.
C22_FlagsReachNestedNodes ==
    /\ (op = "deserialize" /\ opt.unpickle_all /\ HoldsPickleNode(arg))
       => ret.err # Err("TypeError", "pickle-object")
    /\ (op = "deserialize" /\ opt.global_ # PyNone /\ HoldsClassNode(arg))
       => /\ eff.imports = {}
          /\ opt.global_[2] = {} => ~ret.ok

\* a container or JSONSerializable object one of whose elements is an object
\* only the last rule of serialize takes
HoldsFallbackObject(h, v) ==
    /\ \/ Kind(v) \in {"list", "tuple", "set", "dict"}
       \/ isinstance(v, "JSONSerializable")
    /\ LET inner == IF Kind(v) = "obj" THEN v[3] ELSE v IN
       \E i \in DOMAIN inner[2] :
          LET x == IF Kind(inner) = "dict" THEN inner[2][i][2] ELSE inner[2][i] IN
          IsFallbackObject(h, x) /\ CanPickle(x)

\* C23 (as claimed): the pickle_all of the top-level serialize call holds for
\* the nested elements: with pickle_all true a container or cooperating object
\* that holds an otherwise unsupported value is serialized, not refused.
C23_PickleAllReachesNested ==
    (op = "serialize" /\ opt.pickle_all /\ HoldsFallbackObject(before, arg)) => ret.ok

\* C24 (as claimed): the set of registered types is the same after a
\* deserialize call, returning or raising, as before it.
C24_DeserializeKeepsRegistry ==
    op = "deserialize" => Registered(handlers) = Registered(before)

----------------------------------------------------------------------------
(* Claims C25 and C26 *)

\* the tasks that are inside ainput with the lock acquired
Holders == {t \in Tasks : task[t].pc = "reading"}

\* C25 (as claimed): at most one call of ainput or aprint is between acquiring
\* the console lock and its end, and the lock is held only by a call that is
\* still running: once a call has returned, raised or been cancelled the lock
\* is free for the calls that come later.
C25_LockGivenBack ==
    /\ Cardinality(Holders) <= 1
    /\ locked => Holders # {}

\* the futures of _close_tasks
Listed == {close_tasks[i] : i \in DOMAIN close_tasks}

\* wait_close() has been called and has not returned
WaitClosePending == wc \in {"event", "wait"}

\* C26: closed is false until close() is first called and true ever after;
\* wait_close() does not return before close() was called, and when it returns
\* _close_tasks is empty; and wait_close() does not stay suspended for ever
\* once close() has been called and every future of _close_tasks has completed.
C26_LifeTime ==
    /\ [](closed <=> close_called)
    /\ [][closed => closed']_vars
    /\ [][(wc # "returned" /\ wc' = "returned")
            => (close_called /\ close_tasks' = <<>>)]_vars
    /\ []<>~(closed /\ WaitClosePending /\ Listed \subseteq done)

\* wait_close() has returned after close(), with two or more futures that
\* were in the list and completed
C26_Witness ==
    /\ wc = "returned"
    /\ closed
    /\ Cardinality(added) >= 2
    /\ added \subseteq done
    /\ close_tasks = <<>>

=============================================================================
